---------------------------- MODULE Spec2Model ----------------------------
(***************************************************************************)
(* Model of the two LangGraph pipelines of the repository:                 *)
(*   - src/agent.py           the simple router  (plan -> kpi | sentiment  *)
(*                            | fallback -> END)                           *)
(*   - src/agent_with_sql.py  the agent-backed pipeline (agent ->          *)
(*                            parse_visualize -> END) with its helpers     *)
(*                            parse_csv_from_text, save_table, maybe_chart *)
(*                                                                         *)
(* Python strings are sequences of one-character strings, so that lower(), *)
(* substring tests, strip(), splitlines(), the two re.sub calls, the       *)
(* csv.reader state machine, float() and datetime.fromisoformat() are      *)
(* computed character by character.  Optional values (str | None) are      *)
(* tagged records: None and Some(v).                                       *)
(*                                                                         *)
(* Specifications:                                                         *)
(*   Spec       one run of either program: the router on a question, or    *)
(*              the agent-backed pipeline against an empty OUT_DIR         *)
(*   SpecChart  maybe_chart called on a parsed table of up to              *)
(*              MaxChartRows rows                                          *)
(*   SpecSeq    up to MaxRuns runs of the agent-backed pipeline, one after *)
(*              the other, against the same OUT_DIR                        *)
(*   SpecConc   two runs of the agent-backed pipeline side by side, each   *)
(*              in a process of its own, against the same OUT_DIR          *)
(***************************************************************************)
EXTENDS Integers, Sequences, FiniteSets, TLC

VARIABLES
    rstate,     \* agent.py AgentState: [question, intent, answer]
    rpc,        \* agent.py: the node the compiled graph runs next
    rtrace,     \* agent.py: the nodes executed so far, in order
    state,      \* agent_with_sql.py AgentState
    pc,         \* agent_with_sql.py: the node the compiled graph runs next
    files,      \* OUT_DIR: content of result.csv and chart.png
    run,        \* number of graph.invoke calls made against OUT_DIR
    wrote,      \* per file, the number of the run that wrote it last (0: none)
    parsed,     \* node_parse_and_visualize: its local parsed (None: no table)
    table,      \* direct call of maybe_chart: its (header, rows, question)
    chart,      \* direct call of maybe_chart: its outcome
    procs,      \* concurrent runs: per run its AgentState, position, locals
    overlap     \* per file, whether two runs have had it open at once

vars ==
    <<rstate, rpc, rtrace, state, pc, files, run, wrote, parsed, table, chart,
      procs, overlap>>

routerVars == <<rstate, rpc, rtrace>>
sqlVars == <<state, pc, files, run, wrote, parsed>>
chartVars == <<table, chart>>
concVars == <<procs, overlap>>
oneRunVars == <<state, pc, run, parsed>>

---------------------------------------------------------------------------
(* Optional values and strings *)

None == [tag |-> "none"]
Some(v) == [tag |-> "some", val |-> v]
IsNone(o) == o.tag = "none"
IsSome(o) == o.tag = "some"

UpperLetters == <<"A","B","C","D","E","F","G","H","I","J","K","L","M",
                  "N","O","P","Q","R","S","T","U","V","W","X","Y","Z">>
LowerLetters == <<"a","b","c","d","e","f","g","h","i","j","k","l","m",
                  "n","o","p","q","r","s","t","u","v","w","x","y","z">>

\* str.lower() on one character (ASCII letters; other characters are kept).
LowerChar(c) ==
    IF \E i \in 1..26 : UpperLetters[i] = c
    THEN LowerLetters[CHOOSE i \in 1..26 : UpperLetters[i] = c]
    ELSE c

\* str.lower()
Lower(s) == [i \in 1..Len(s) |-> LowerChar(s[i])]

\* k in q  (substring test)
Contains(k, q) ==
    \E i \in 0..(Len(q) - Len(k)) : SubSeq(q, i + 1, i + Len(k)) = k

\* s.startswith(p) at offset i (1-based): the characters of p stand at i.
MatchAt(p, s, i) ==
    /\ i + Len(p) - 1 <= Len(s)
    /\ SubSeq(s, i, i + Len(p) - 1) = p

\* sep.join(parts)
RECURSIVE Join(_, _)
Join(parts, sep) ==
    IF parts = <<>> THEN <<>>
    ELSE IF Len(parts) = 1 THEN parts[1]
    ELSE parts[1] \o sep \o Join(Tail(parts), sep)

---------------------------------------------------------------------------
(* src/agent.py : the simple router *)

KpiKeywords ==
    << <<"r","e","v","e","n","u","e">>, <<"s","a","l","e","s">>,
       <<"u","n","i","t","s">>, <<"t","r","e","n","d">>, <<"t","o","p">>,
       <<"l","e","a","d","e","r","b","o","a","r","d">> >>

SentimentKeywords ==
    << <<"s","e","n","t","i","m","e","n","t">>,
       <<"f","e","e","d","b","a","c","k">>, <<"r","e","v","i","e","w">> >>

\* any(k in q for k in keywords)
AnyIn(keywords, q) == \E i \in 1..Len(keywords) : Contains(keywords[i], q)

\* node_plan with the rules tried first-match-wins (the KPI rule shadows
\* the sentiment rule).
PlanIntentFirstMatch(question) ==
    IF AnyIn(KpiKeywords, Lower(question)) THEN "kpi"
    ELSE IF AnyIn(SentimentKeywords, Lower(question)) THEN "sentiment"
    ELSE "fallback"

\* The body of node_plan: later rules override earlier matches.
PlanIntent(question) ==
    LET q == Lower(question)
        i0 == "fallback"
        i1 == IF AnyIn(KpiKeywords, q) THEN "kpi" ELSE i0
        i2 == IF AnyIn(SentimentKeywords, q) THEN "sentiment" ELSE i1
    IN  i2

\* route_from_intent: state.intent or "fallback"
route_from_intent(s) ==
    IF IsNone(s.intent) \/ s.intent = Some("") THEN "fallback" ELSE s.intent.val

KpiAnswer ==
    "KPI branch: I would compute metrics (revenue/units) and return a chart."
SentimentAnswer ==
    "Sentiment branch: I would aggregate daily sentiment from feedback data and plot a trend."
\* (the apostrophe of the source is typographic; it is the ASCII one here)
FallbackAnswer ==
    "Sorry, I didn't understand. Try asking about revenue trend, top products, store leaderboard, or sentiment."

\* The mapping with two targets exchanged.
PlanEdgesCrossed ==
    [kpi |-> "sentiment", sentiment |-> "kpi", fallback |-> "fallback"]

\* The mapping of add_conditional_edges("plan", route_from_intent, {...}).
PlanEdges == [kpi |-> "kpi", sentiment |-> "sentiment", fallback |-> "fallback"]

\* Words the questions of the model are made of: every keyword in some
\* letter case, a word that contains a keyword ("stop"), near misses
\* ("unit", "sale") and words that match nothing.
QuestionWords ==
    { <<"R","e","v","e","n","u","e">>, <<"s","a","l","e","s">>,
      <<"U","N","I","T","S">>, <<"t","r","e","n","d">>, <<"s","t","o","p">>,
      <<"L","e","a","d","e","r","b","o","a","r","d">>,
      <<"S","e","n","t","i","m","e","n","t">>,
      <<"f","e","e","d","b","a","c","k">>, <<"R","E","V","I","E","W">>,
      <<"u","n","i","t">>, <<"s","a","l","e">>,
      <<"r","a","n","d","o","m">> }

MaxWords == 2

\* seqs, and each of them with one more word.
MoreWords(seqs) == seqs \cup { Append(ws, w) : ws \in seqs, w \in QuestionWords }

RECURSIVE WordSeqs(_)
WordSeqs(n) == IF n = 0 THEN { <<>> } ELSE MoreWords(WordSeqs(n - 1))

\* The questions: up to MaxWords words joined by single spaces.
Questions == { Join(ws, <<" ">>) : ws \in WordSeqs(MaxWords) }

\* The simple router is not run.
RouterOff ==
    /\ rstate = [question |-> <<>>, intent |-> None, answer |-> None]
    /\ rpc = "off"
    /\ rtrace = <<>>

\* graph.invoke(AgentState(question=q)): the run stands at START.
RouterInit ==
    /\ \E q \in Questions :
          rstate = [question |-> q, intent |-> None, answer |-> None]
    /\ rpc = "START"
    /\ rtrace = <<>>

\* g.add_edge(START, "plan")
RStart ==
    /\ rpc = "START"
    /\ rpc' = "plan"
    /\ UNCHANGED <<rstate, rtrace>>
    /\ UNCHANGED <<sqlVars, chartVars, concVars>>

\* node_plan, then the conditional edge out of "plan".
node_plan ==
    /\ rpc = "plan"
    /\ rstate' = [rstate EXCEPT !.intent = Some(PlanIntent(rstate.question))]
    /\ rpc' = PlanEdges[route_from_intent(rstate')]
    /\ rtrace' = Append(rtrace, "plan")
    /\ UNCHANGED <<sqlVars, chartVars, concVars>>

\* node_kpi, then g.add_edge("kpi", END)
node_kpi ==
    /\ rpc = "kpi"
    /\ rstate' = [rstate EXCEPT !.answer = Some(KpiAnswer)]
    /\ rpc' = "END"
    /\ rtrace' = Append(rtrace, "kpi")
    /\ UNCHANGED <<sqlVars, chartVars, concVars>>

\* node_sentiment, then g.add_edge("sentiment", END)
node_sentiment ==
    /\ rpc = "sentiment"
    /\ rstate' = [rstate EXCEPT !.answer = Some(SentimentAnswer)]
    /\ rpc' = "END"
    /\ rtrace' = Append(rtrace, "sentiment")
    /\ UNCHANGED <<sqlVars, chartVars, concVars>>

\* node_fallback, then g.add_edge("fallback", END)
node_fallback ==
    /\ rpc = "fallback"
    /\ rstate' = [rstate EXCEPT !.answer = Some(FallbackAnswer)]
    /\ rpc' = "END"
    /\ rtrace' = Append(rtrace, "fallback")
    /\ UNCHANGED <<sqlVars, chartVars, concVars>>

RouterNext == RStart \/ node_plan \/ node_kpi \/ node_sentiment \/ node_fallback

---------------------------------------------------------------------------
(* src/agent_with_sql.py : text helpers used by parse_csv_from_text *)

\* Whitespace of the model's alphabet (str.strip() strips these).
IsSpace(c) == c \in {" ", "\n"}

\* str.strip()
RECURSIVE LStrip(_)
LStrip(s) == IF s # <<>> /\ IsSpace(Head(s)) THEN LStrip(Tail(s)) ELSE s
RECURSIVE RStrip(_)
RStrip(s) ==
    IF s # <<>> /\ IsSpace(s[Len(s)]) THEN RStrip(SubSeq(s, 1, Len(s) - 1)) ELSE s
Strip(s) == RStrip(LStrip(s))

\* s.splitlines()[0] if s.splitlines() else ""
FirstLine(s) ==
    IF \E i \in 1..Len(s) : s[i] = "\n"
    THEN SubSeq(s, 1, (CHOOSE i \in 1..Len(s) :
                          s[i] = "\n" /\ \A j \in 1..(i - 1) : s[j] # "\n") - 1)
    ELSE s

\* s.count(c)
Count(c, s) == Cardinality({ i \in 1..Len(s) : s[i] = c })

\* The backquote character (a string literal cannot hold it).
BQ == "BQ"
Fence == <<BQ, BQ, BQ>>
TagLower == <<"c","s","v">>
TagUpper == <<"C","S","V">>

\* re.sub(r"^FENCE(csv|CSV)?", "", s, flags=re.M) from position i on: a fence
\* that starts a line is removed together with a csv/CSV tag after it.
RECURSIVE SubOpenFence(_, _)
SubOpenFence(s, i) ==
    IF i > Len(s) THEN <<>>
    ELSE IF (i = 1 \/ s[i - 1] = "\n") /\ MatchAt(Fence, s, i)
    THEN IF MatchAt(TagLower, s, i + 3) \/ MatchAt(TagUpper, s, i + 3)
         THEN SubOpenFence(s, i + 6)
         ELSE SubOpenFence(s, i + 3)
    ELSE <<s[i]>> \o SubOpenFence(s, i + 1)

\* re.sub(r"FENCE$", "", s, flags=re.M) from position i on: a fence that ends
\* a line (or the text) is removed.
RECURSIVE SubCloseFence(_, _)
SubCloseFence(s, i) ==
    IF i > Len(s) THEN <<>>
    ELSE IF MatchAt(Fence, s, i) /\ (i + 3 > Len(s) \/ s[i + 3] = "\n")
    THEN SubCloseFence(s, i + 3)
    ELSE <<s[i]>> \o SubCloseFence(s, i + 1)

(***************************************************************************)
(* csv.reader(io.StringIO(cleaned)) with the default (excel) dialect:      *)
(* comma delimiter, double-quote quotechar, doublequote, not strict, no    *)
(* escapechar.                                                             *)
(* The reader is the character state machine.  StringIO yields the   *)
(* lines with their newline; after each line the reader processes the         *)
(* end-of-line sentinel EOL, and it returns a record whenever that leaves  *)
(* it in START_RECORD.                                                     *)
(***************************************************************************)
EOL == "EOL"

ReaderStart ==
    [st |-> "START_RECORD", field |-> <<>>, fields |-> <<>>, rows |-> <<>>,
     err |-> FALSE]

AddChar(ps, c, st) == [ps EXCEPT !.field = Append(@, c), !.st = st]

SaveField(ps, st) ==
    [ps EXCEPT !.fields = Append(@, ps.field), !.field = <<>>, !.st = st]

AfterEol(c) == IF c = EOL THEN "START_RECORD" ELSE "EAT_CRNL"

\* parse_process_char
ParseChar(ps, c) ==
    CASE ps.st = "START_RECORD" /\ c = EOL -> ps
      [] ps.st = "START_RECORD" /\ c = "\n" -> [ps EXCEPT !.st = "EAT_CRNL"]
      [] ps.st \in {"START_RECORD", "START_FIELD"} /\ c \notin {EOL, "\n"} ->
            IF c = "\"" THEN [ps EXCEPT !.st = "IN_QUOTED_FIELD"]
            ELSE IF c = "," THEN SaveField(ps, "START_FIELD")
            ELSE AddChar(ps, c, "IN_FIELD")
      [] ps.st = "START_FIELD" /\ c \in {EOL, "\n"} -> SaveField(ps, AfterEol(c))
      [] ps.st = "IN_FIELD" ->
            IF c \in {EOL, "\n"} THEN SaveField(ps, AfterEol(c))
            ELSE IF c = "," THEN SaveField(ps, "START_FIELD")
            ELSE AddChar(ps, c, "IN_FIELD")
      [] ps.st = "IN_QUOTED_FIELD" ->
            IF c = EOL THEN ps
            ELSE IF c = "\"" THEN [ps EXCEPT !.st = "QUOTE_IN_QUOTED_FIELD"]
            ELSE AddChar(ps, c, "IN_QUOTED_FIELD")
      [] ps.st = "QUOTE_IN_QUOTED_FIELD" ->
            IF c = "\"" THEN AddChar(ps, c, "IN_QUOTED_FIELD")
            ELSE IF c = "," THEN SaveField(ps, "START_FIELD")
            ELSE IF c \in {EOL, "\n"} THEN SaveField(ps, AfterEol(c))
            ELSE AddChar(ps, c, "IN_FIELD")
      [] ps.st = "EAT_CRNL" ->
            IF c = "\n" THEN ps
            ELSE IF c = EOL THEN [ps EXCEPT !.st = "START_RECORD"]
            ELSE [ps EXCEPT !.err = TRUE]

\* Reader_iternext returns the fields once a line end leaves START_RECORD.
EmitRecord(ps) ==
    IF ps.st = "START_RECORD"
    THEN [ps EXCEPT !.rows = Append(@, ps.fields), !.fields = <<>>]
    ELSE ps

\* End of input: a record still open (inside a quoted field) is returned.
EndOfInput(ps) ==
    IF ps.st = "IN_QUOTED_FIELD" \/ ps.field # <<>>
    THEN Append(ps.rows, Append(ps.fields, ps.field))
    ELSE ps.rows

\* After the last character of a line the reader processes EOL.
EndLine(ps, lineEnds) ==
    IF lineEnds /\ ~ps.err THEN EmitRecord(ParseChar(ps, EOL)) ELSE ps

\* list(csv.reader(io.StringIO(s))) from position i on; [err, rows].
RECURSIVE ReadFrom(_, _, _)
ReadFrom(s, i, ps) ==
    IF ps.err THEN [err |-> TRUE, rows |-> <<>>]
    ELSE IF i > Len(s) THEN [err |-> FALSE, rows |-> EndOfInput(ps)]
    ELSE ReadFrom(s, i + 1,
                  EndLine(ParseChar(ps, s[i]), s[i] = "\n" \/ i = Len(s)))

CsvReader(s) == ReadFrom(s, 1, ReaderStart)

\* The rows of s whose length is n.
RECURSIVE RowsOfLength(_, _)
RowsOfLength(s, n) ==
    IF s = <<>> THEN <<>>
    ELSE (IF Len(Head(s)) = n THEN <<Head(s)>> ELSE <<>>) \o RowsOfLength(Tail(s), n)

\* The end of parse_csv_from_text with the sanity check dropping the rows
\* that fail it instead of the table.
TableOfRowsDropping(rows) ==
    IF rows = <<>> THEN None
    ELSE Some([header |-> rows[1], rows |-> RowsOfLength(Tail(rows), Len(rows[1]))])

\* The end of parse_csv_from_text: rows is list(reader).
TableOfRows(rows) ==
    IF rows = <<>> THEN None
    ELSE IF \E k \in 2..Len(rows) : Len(rows[k]) # Len(rows[1]) THEN None
    ELSE Some([header |-> rows[1], rows |-> Tail(rows)])

\* The try block of parse_csv_from_text: an exception of the reader gives None.
TableOfRead(read) == IF read.err THEN None ELSE TableOfRows(read.rows)

\* The two re.sub calls of parse_csv_from_text.
RemoveFences(stripped) == SubCloseFence(SubOpenFence(stripped, 1), 1)

\* parse_csv_from_text after text.strip().
ParseStripped(stripped) ==
    IF Count(",", FirstLine(stripped)) < 1 THEN None
    ELSE TableOfRead(CsvReader(RemoveFences(stripped)))

\* parse_csv_from_text: Some([header, rows]) or None.
parse_csv_from_text(text) == ParseStripped(Strip(text))

---------------------------------------------------------------------------
(* float(), datetime.fromisoformat() and csv.writer, as maybe_chart and    *)
(* save_table use them                                                     *)

DigitChars == <<"0","1","2","3","4","5","6","7","8","9">>
IsDigit(c) == \E i \in 1..10 : DigitChars[i] = c
DigitVal(c) == (CHOOSE i \in 1..10 : DigitChars[i] = c) - 1
AllDigits(s) == \A i \in 1..Len(s) : IsDigit(s[i])

\* int(s) for a string of decimal digits ("" counts as 0)
RECURSIVE DigitsToInt(_)
DigitsToInt(s) ==
    IF s = <<>> THEN 0
    ELSE 10 * DigitsToInt(SubSeq(s, 1, Len(s) - 1)) + DigitVal(s[Len(s)])

\* The first position of a character of cs in s, or 0.
IndexOfAny(cs, s) ==
    IF \E i \in 1..Len(s) : s[i] \in cs
    THEN CHOOSE i \in 1..Len(s) : s[i] \in cs /\ \A j \in 1..(i - 1) : s[j] \notin cs
    ELSE 0

IsSign(c) == c \in {"+", "-"}
Unsigned(s) == IF s # <<>> /\ IsSign(Head(s)) THEN Tail(s) ELSE s
IsNegative(s) == s # <<>> /\ Head(s) = "-"

FloatWords == { <<"i","n","f">>, <<"i","n","f","i","n","i","t","y">>, <<"n","a","n">> }

\* The parts of a decimal literal: digits [. digits] [e|E [sign] digits]
SplitMantissa(mant, dot, hasExp, expo) ==
    [hasExp |-> hasExp,
     expo   |-> expo,
     int    |-> IF dot = 0 THEN mant ELSE SubSeq(mant, 1, dot - 1),
     frac   |-> IF dot = 0 THEN <<>> ELSE SubSeq(mant, dot + 1, Len(mant))]

SplitExponent(mant, hasExp, expo) ==
    SplitMantissa(mant, IndexOfAny({"."}, mant), hasExp, expo)

SplitAt(b, ePos) ==
    IF ePos = 0 THEN SplitExponent(b, FALSE, <<>>)
    ELSE SplitExponent(SubSeq(b, 1, ePos - 1), TRUE, SubSeq(b, ePos + 1, Len(b)))

DecimalParts(b) == SplitAt(b, IndexOfAny({"e", "E"}, b))

WellFormedParts(p) ==
    /\ AllDigits(p.int) /\ AllDigits(p.frac)
    /\ Len(p.int) + Len(p.frac) >= 1
    /\ p.hasExp => /\ Unsigned(p.expo) # <<>>
                   /\ AllDigits(Unsigned(p.expo))

IsDecimal(b) == WellFormedParts(DecimalParts(b))

IsFloatBody(b) == Lower(b) \in FloatWords \/ IsDecimal(b)

\* Whether float(s) returns (TRUE) or raises ValueError (FALSE).  Digit
\* grouping by "_" is not modelled: no text of the model holds a "_".
FloatParses(s) == IsFloatBody(Unsigned(Strip(s)))

\* m * 10^e without trailing zeros in m.
RECURSIVE Normalize(_, _)
Normalize(m, e) ==
    IF m = 0 THEN [m |-> 0, e |-> 0]
    ELSE IF m % 10 = 0 THEN Normalize(m \div 10, e + 1)
    ELSE [m |-> m, e |-> e]

SignOf(s) == IF IsNegative(s) THEN -1 ELSE 1

ExponentOf(p) ==
    IF p.hasExp THEN SignOf(p.expo) * DigitsToInt(Unsigned(p.expo)) ELSE 0

Signed(sgn, n) == [kind |-> "num", m |-> sgn * n.m, e |-> n.e]

DecimalValue(sgn, p) ==
    Signed(sgn, Normalize(DigitsToInt(p.int \o p.frac), ExponentOf(p) - Len(p.frac)))

WordOrDecimal(sgn, b, word) ==
    IF word = <<"n","a","n">> THEN [kind |-> "nan", m |-> 0, e |-> 0]
    ELSE IF word \in FloatWords THEN [kind |-> "inf", m |-> sgn, e |-> 0]
    ELSE DecimalValue(sgn, DecimalParts(b))

BodyValue(sgn, b) == WordOrDecimal(sgn, b, Lower(b))

StrippedValue(t) == BodyValue(SignOf(t), Unsigned(t))

\* The value float(s) returns, for an s that parses: inf, nan, or the
\* decimal value as mantissa and power of ten.
FloatValue(s) == StrippedValue(Strip(s))

IsLeap(y) == (y % 4 = 0 /\ y % 100 # 0) \/ y % 400 = 0
DaysInMonth(y, m) ==
    IF m = 2 THEN (IF IsLeap(y) THEN 29 ELSE 28)
    ELSE IF m \in {4, 6, 9, 11} THEN 30 ELSE 31

\* date(y, m, d): Some(date), or None for ValueError.
DateOf(y, m, d) ==
    IF y >= 1 /\ m \in 1..12 /\ d >= 1 /\ d <= DaysInMonth(y, m)
    THEN Some([year |-> y, month |-> m, day |-> d])
    ELSE None

\* datetime.fromisoformat(s) for the date form YYYY-MM-DD: Some(date) or
\* None for ValueError.  Strings of another shape count as ValueError; the
\* forms with a time part, a week number or no dashes are in no text of
\* the model.
FromIsoFormat(s) ==
    IF /\ Len(s) = 10
       /\ s[5] = "-" /\ s[8] = "-"
       /\ AllDigits(SubSeq(s, 1, 4)) /\ AllDigits(SubSeq(s, 6, 7))
       /\ AllDigits(SubSeq(s, 9, 10))
    THEN DateOf(DigitsToInt(SubSeq(s, 1, 4)), DigitsToInt(SubSeq(s, 6, 7)),
                DigitsToInt(SubSeq(s, 9, 10)))
    ELSE None

\* csv.writer with QUOTE_MINIMAL: a field holding the delimiter, the
\* quotechar or a line break is quoted, its quotes doubled.
RECURSIVE DoubleQuotes(_)
DoubleQuotes(f) ==
    IF f = <<>> THEN <<>>
    ELSE (IF Head(f) = "\"" THEN <<"\"", "\"">> ELSE <<Head(f)>>)
         \o DoubleQuotes(Tail(f))

WriteField(f) ==
    IF \E i \in 1..Len(f) : f[i] \in {",", "\"", "\n", "\r"}
    THEN <<"\"">> \o DoubleQuotes(f) \o <<"\"">>
    ELSE f

\* writer.writerow(row): the fields joined by commas, then "\r\n"; a row
\* of one empty field is written as a pair of quotes.
WriteRow(row) ==
    (IF row = << <<>> >> THEN <<"\"", "\"">>
     ELSE Join([i \in 1..Len(row) |-> WriteField(row[i])], <<",">>))
    \o <<"\r", "\n">>

RECURSIVE WriteRows(_)
WriteRows(rows) ==
    IF rows = <<>> THEN <<>> ELSE WriteRow(Head(rows)) \o WriteRows(Tail(rows))

\* save_table: the bytes written to path.
save_table(header, rows) == WriteRow(header) \o WriteRows(rows)

---------------------------------------------------------------------------
(* src/agent_with_sql.py : maybe_chart *)

OUT_DIR == <<".","/","o","u","t","p","u","t","s">>
\* os.path.join(OUT_DIR, "result.csv")
out_csv == OUT_DIR \o <<"/","r","e","s","u","l","t",".","c","s","v">>
\* os.path.join(OUT_DIR, "chart.png")
out_png == OUT_DIR \o <<"/","c","h","a","r","t",".","p","n","g">>

BarRowCap == 30

\* s[:n]
Take(s, n) == SubSeq(s, 1, IF Len(s) < n THEN Len(s) ELSE n)

\* len(header) < 2 or not rows
NotChartable(header, rows) == Len(header) < 2 \/ rows = <<>>

\* y = [float(r[1]) for r in rows] raises for no row.
SecondColumnNumeric(rows) == \A i \in 1..Len(rows) : FloatParses(rows[i][2])

\* xdt = [dt.fromisoformat(str(v)) for v in x] raises for no value.
FirstColumnDates(x) == \A i \in 1..Len(x) : IsSome(FromIsoFormat(x[i]))

\* The time series under the row cap of the bars.
PlotFigureCapped(header, x, y, question) ==
    [kind |-> "plot",
     xdt |-> [i \in 1..Len(Take(x, BarRowCap)) |-> FromIsoFormat(x[i]).val],
     y |-> Take(y, BarRowCap),
     xlabel |-> header[1], ylabel |-> header[2], title |-> question]

\* plt.plot(xdt, y) with both axis labels and the title.
PlotFigure(header, x, y, question) ==
    [kind |-> "plot",
     xdt |-> [i \in 1..Len(x) |-> FromIsoFormat(x[i]).val],
     y |-> y,
     xlabel |-> header[1], ylabel |-> header[2], title |-> question]

\* The bars without the row cap.
BarFigureUncapped(header, x, y, question) ==
    [kind |-> "bar", labels |-> x, y |-> y,
     ylabel |-> header[2], title |-> question]

\* plt.bar([str(v) for v in x[:30]], y[:30]) with the y label and the title.
BarFigure(header, x, y, question) ==
    [kind |-> "bar",
     labels |-> Take(x, BarRowCap),
     y |-> Take(y, BarRowCap),
     ylabel |-> header[2], title |-> question]

\* maybe_chart: ret is the value returned (None or the path of chart.png),
\* fig the figure that plt.savefig wrote there (None: nothing was written).
\* The figure drawn: the time series if every x parses, else the bars.
Figure(header, x, y, question) ==
    IF FirstColumnDates(x)
    THEN PlotFigure(header, x, y, question)
    ELSE BarFigure(header, x, y, question)

\* y = [float(r[1]) for r in rows]
SecondColumn(rows) == [i \in 1..Len(rows) |-> FloatValue(rows[i][2])]

\* x = [r[0] for r in rows]
FirstColumn(rows) == [i \in 1..Len(rows) |-> rows[i][1]]

maybe_chart(header, rows, question) ==
    IF NotChartable(header, rows) THEN [ret |-> None, fig |-> None]
    ELSE IF ~SecondColumnNumeric(rows) THEN [ret |-> None, fig |-> None]
    ELSE [ret |-> Some(out_png),
          fig |-> Some(Figure(header, FirstColumn(rows), SecondColumn(rows),
                              question))]

---------------------------------------------------------------------------
(* src/agent_with_sql.py : the nodes *)

NoOutputMessage ==
    <<"N","o"," ","o","u","t","p","u","t"," ","f","r","o","m"," ",
      "a","g","e","n","t",".">>
SavedPrefix == <<"S","a","v","e","d"," ">>
AndInfix == <<" ","a","n","d"," ">>

\* AgentState(question=q)
NewAgentState(q) ==
    [question |-> q, raw_output |-> None, result_csv_path |-> None,
     chart_png_path |-> None, message |-> None]

\* open(path, "a"): what is written follows what the file held.
WriteFileAppend(old, new) ==
    IF IsSome(old) THEN Some(old.val \o new) ELSE Some(new)

\* open(path, "w"): the file is truncated, then holds what was written.
WriteFile(old, new) == Some(new)

\* plt.savefig(out_png): the file holds the figure.
SaveFig(old, fig) == Some(fig)

\* not state.raw_output
NoRawOutput(s) == IsNone(s.raw_output) \/ s.raw_output.val = <<>>

\* The first return without its update: the state goes back as it came.
ReturnNoOutputUnset(s) == s

\* The first return of node_parse_and_visualize.
ReturnNoOutput(s) == [s EXCEPT !.message = Some(NoOutputMessage)]

\* The second return with the stripped text that parse_csv_from_text saw.
ReturnTextStripped(s) == [s EXCEPT !.message = Some(Strip(s.raw_output.val))]

\* The second return of node_parse_and_visualize: no CSV, just the text.
ReturnText(s) == [s EXCEPT !.message = s.raw_output]

\* f"Saved {out_csv}" + (f" and {chart_path}" if chart_path else "")
SavedMessage(chart_path) ==
    SavedPrefix \o out_csv
    \o (IF IsSome(chart_path) /\ chart_path.val # <<>>
        THEN AndInfix \o chart_path.val ELSE <<>>)

\* The last return naming chart.png whether or not maybe_chart wrote it.
ReturnSavedWithChart(s, chart_path) ==
    [s EXCEPT !.result_csv_path = Some(out_csv),
              !.chart_png_path = Some(out_png),
              !.message = Some(SavedMessage(Some(out_png)))]

\* The last return of node_parse_and_visualize.
ReturnSaved(s, chart_path) ==
    [s EXCEPT !.result_csv_path = Some(out_csv),
              !.chart_png_path = chart_path,
              !.message = Some(SavedMessage(chart_path))]

\* node_parse_and_visualize on state s with the files fs: the state it
\* returns, its local parsed, and the files afterwards with the artifacts
\* it wrote (csvWritten, pngWritten).
\* Lines 115-116, with c the outcome of maybe_chart and fs the files after
\* save_table.
Finish(s, p, fs, c) ==
    [state |-> ReturnSaved(s, c.ret), parsed |-> p,
     files |-> IF IsSome(c.fig) THEN [fs EXCEPT !.png = SaveFig(@, c.fig.val)]
               ELSE fs,
     csvWritten |-> TRUE, pngWritten |-> IsSome(c.fig)]

\* Lines 111-114: save_table, then maybe_chart.
SaveAndChart(s, p, fs, header, rows) ==
    Finish(s, p, [fs EXCEPT !.csv = WriteFile(@, save_table(header, rows))],
           maybe_chart(header, rows, s.question))

\* Lines 108-110, with p the value parse_csv_from_text returned.
Visualize(s, p, fs) ==
    IF IsNone(p)
    THEN [state |-> ReturnText(s), parsed |-> None, files |-> fs,
          csvWritten |-> FALSE, pngWritten |-> FALSE]
    ELSE SaveAndChart(s, p, fs, p.val.header, p.val.rows)

ParseAndVisualize(s, fs) ==
    IF NoRawOutput(s)
    THEN [state |-> ReturnNoOutput(s), parsed |-> None, files |-> fs,
          csvWritten |-> FALSE, pngWritten |-> FALSE]
    ELSE Visualize(s, parse_csv_from_text(s.raw_output.val), fs)

\* Cells and lines the agent's answers are made of.
DateCell == <<"2","0","2","4","-","0","1","-","0","2">>
LabelCell == <<"N","Y","C">>
NumberCell == <<"1",".","5">>
WordCell == <<"g","r","e","a","t">>

\* Lines of two fields (date or label, number or word), a line of one
\* field, a blank line, a line whose first field is quoted and holds a
\* comma, and a line of three fields.
OutputLines ==
    { c1 \o <<",">> \o c2 : c1 \in {DateCell, LabelCell}, c2 \in {NumberCell, WordCell} }
    \cup { <<"7">>, <<>>, <<"\"","a",",","b","\"",",","2">>, <<"x",",","y",",","3">> }

MaxLines == 3

\* seqs, and each of them with one more line.
Longer(seqs) == seqs \cup { Append(ls, l) : ls \in seqs, l \in OutputLines }

RECURSIVE LineSeqs(_)
LineSeqs(n) == IF n = 0 THEN { <<>> } ELSE Longer(LineSeqs(n - 1))

\* A text wrapped in a fenced block: the opening fence line (tagged csv or
\* not), the text, the closing fence line.
FenceBlock(tag, body) == Fence \o tag \o <<"\n">> \o body \o <<"\n">> \o Fence

\* A text with the fences on its first and last line.
FenceInline(body) == Fence \o body \o Fence

Bodies == { Join(ls, <<"\n">>) : ls \in LineSeqs(MaxLines) }

\* What sql_agent.invoke can return as out["output"]: nothing, or a text of
\* up to MaxLines lines, bare or fenced.
AgentOutputs ==
    {None}
    \cup { Some(b) : b \in Bodies }
    \cup { Some(FenceBlock(tag, b)) : tag \in {<<>>, TagLower}, b \in Bodies }
    \cup { Some(FenceInline(b)) : b \in Bodies }

SqlQuestions == { <<"q","1">>, <<"q","2">> }

\* graph.invoke(AgentState(question=q)), the first against OUT_DIR.
SqlInit ==
    /\ \E q \in SqlQuestions : state = NewAgentState(q)
    /\ pc = "START"
    /\ files = [csv |-> None, png |-> None]
    /\ run = 1
    /\ wrote = [csv |-> 0, png |-> 0]
    /\ parsed = None

\* The agent-backed pipeline is not run.
SqlOff ==
    /\ state = NewAgentState(<<>>)
    /\ pc = "off"
    /\ files = [csv |-> None, png |-> None]
    /\ run = 0
    /\ wrote = [csv |-> 0, png |-> 0]
    /\ parsed = None

\* maybe_chart is not called on its own.
ChartOff ==
    /\ table = None
    /\ chart = None

\* No runs are made side by side.
ConcOff ==
    /\ procs = <<>>
    /\ overlap = [csv |-> FALSE, png |-> FALSE]

\* g.add_edge(START, "agent")
SqlStart ==
    /\ pc = "START"
    /\ pc' = "agent"
    /\ UNCHANGED <<state, files, run, wrote, parsed>>
    /\ UNCHANGED <<routerVars, chartVars, concVars>>

\* node_agent with the agent returning one of outs, then
\* g.add_edge("agent", "parse_visualize")
AgentReturns(outs) ==
    /\ pc = "agent"
    /\ \E out \in outs : state' = [state EXCEPT !.raw_output = out]
    /\ pc' = "parse_visualize"
    /\ UNCHANGED <<files, run, wrote, parsed>>
    /\ UNCHANGED <<routerVars, chartVars, concVars>>

node_agent == AgentReturns(AgentOutputs)

\* node_agent when sql_agent.invoke raises: the run fails, no node follows.
node_agent_raises ==
    /\ pc = "agent"
    /\ pc' = "RAISED"
    /\ UNCHANGED <<state, files, run, wrote, parsed>>
    /\ UNCHANGED <<routerVars, chartVars, concVars>>

\* node_parse_and_visualize, then g.add_edge("parse_visualize", END)
Returned(r) ==
    /\ state' = r.state
    /\ parsed' = r.parsed
    /\ files' = r.files
    /\ wrote' = [csv |-> IF r.csvWritten THEN run ELSE wrote.csv,
                 png |-> IF r.pngWritten THEN run ELSE wrote.png]

node_parse_and_visualize ==
    /\ pc = "parse_visualize"
    /\ Returned(ParseAndVisualize(state, files))
    /\ pc' = "END"
    /\ UNCHANGED run
    /\ UNCHANGED <<routerVars, chartVars, concVars>>

SqlNext == SqlStart \/ node_agent \/ node_agent_raises \/ node_parse_and_visualize

---------------------------------------------------------------------------
(* Either program is run once: the simple router on a question, or the    *)
(* agent-backed pipeline on a question against an empty OUT_DIR.          *)

Init ==
    \/ RouterInit /\ SqlOff /\ ChartOff /\ ConcOff
    \/ RouterOff /\ SqlInit /\ ChartOff /\ ConcOff

Next == RouterNext \/ SqlNext

Spec == Init /\ [][Next]_vars

---------------------------------------------------------------------------
(* maybe_chart called on a parsed table (SpecChart) *)

MaxChartRows == 32

TwoDigits(n) == <<DigitChars[(n \div 10) + 1], DigitChars[(n % 10) + 1]>>

\* The j-th date of 2024 in months of 28 days: 2024-01-01, 2024-01-02, ...
DateAt(j) ==
    <<"2","0","2","4","-">> \o TwoDigits(1 + ((j - 1) \div 28)) \o <<"-">>
    \o TwoDigits(1 + ((j - 1) % 28))
LabelAt(j) == <<"s">> \o TwoDigits(j)
NumberAt(j) == TwoDigits(j) \o <<".","5">>
NoSuchDate == <<"2","0","2","4","-","0","2","-","3","0">>

OddKinds == {"label", "nodate", "word"}

FirstCell(j, base, isOdd, oddKind) ==
    IF base = "label" \/ (isOdd /\ oddKind = "label") THEN LabelAt(j)
    ELSE IF isOdd /\ oddKind = "nodate" THEN NoSuchDate
    ELSE DateAt(j)

SecondCell(j, isOdd, oddKind) ==
    IF isOdd /\ oddKind = "word" THEN WordCell ELSE NumberAt(j)

RowOf(j, base, isOdd, oddKind, ncols) ==
    IF ncols = 1 THEN <<FirstCell(j, base, isOdd, oddKind)>>
    ELSE <<FirstCell(j, base, isOdd, oddKind), SecondCell(j, isOdd, oddKind)>>

\* A table of n rows of ncols columns: dates (or labels) and numbers,
\* ascending or descending, the row numbered odd (0: none) being of
\* another kind.
TableOf(n, base, odd, oddKind, desc, ncols) ==
    [header |-> IF ncols = 1 THEN << <<"k">> >> ELSE << <<"k">>, <<"v">> >>,
     rows |-> [i \in 1..n |->
                  RowOf(IF desc THEN n + 1 - i ELSE i, base, i = odd, oddKind, ncols)],
     question |-> <<"q","1">>]

ChartTables ==
    { TableOf(n, base, odd, oddKind, desc, ncols) :
        n \in 0..MaxChartRows, base \in {"date", "label"},
        odd \in {0, 1, MaxChartRows - 1}, oddKind \in OddKinds,
        desc \in BOOLEAN, ncols \in {1, 2} }

ChartInit ==
    /\ table \in { Some(t) : t \in ChartTables }
    /\ chart = None

\* maybe_chart(header, rows, question) returned c.
Charted(c) ==
    /\ chart' = Some(c)
    /\ files' = IF IsSome(c.fig) THEN [files EXCEPT !.png = SaveFig(@, c.fig.val)]
                ELSE files

call_maybe_chart ==
    /\ IsSome(table) /\ IsNone(chart)
    /\ Charted(maybe_chart(table.val.header, table.val.rows, table.val.question))
    /\ UNCHANGED <<state, pc, run, wrote, parsed, table>>
    /\ UNCHANGED <<routerVars, concVars>>

InitChart == RouterOff /\ SqlOff /\ ChartInit /\ ConcOff
NextChart == call_maybe_chart
SpecChart == InitChart /\ [][NextChart]_vars

---------------------------------------------------------------------------
(* Runs of the agent-backed pipeline one after the other against the same *)
(* OUT_DIR (SpecSeq)                                                       *)

MaxRuns == 3

TableHeader == <<"k",",","v">>

\* Answers of the agent: nothing, a plain text, a table that gives a time
\* series, one that gives bars, one with a word in its second column, and
\* one with a short row.
SeqOutputs ==
    { None,
      Some(<<"7">>),
      Some(Join(<<TableHeader, DateCell \o <<",">> \o NumberCell>>, <<"\n">>)),
      Some(Join(<<TableHeader, LabelCell \o <<",">> \o NumberCell>>, <<"\n">>)),
      Some(Join(<<TableHeader, LabelCell \o <<",">> \o WordCell>>, <<"\n">>)),
      Some(Join(<<TableHeader, LabelCell \o <<",">> \o NumberCell, <<"7">> >>, <<"\n">>)) }

seq_node_agent == AgentReturns(SeqOutputs)

\* The next graph.invoke(AgentState(question=q)) once the run before it
\* has returned or raised; OUT_DIR is as that run left it.
invoke_again ==
    /\ pc \in {"END", "RAISED"}
    /\ run < MaxRuns
    /\ \E q \in SqlQuestions : state' = NewAgentState(q)
    /\ pc' = "START"
    /\ run' = run + 1
    /\ parsed' = None
    /\ UNCHANGED <<files, wrote>>
    /\ UNCHANGED <<routerVars, chartVars, concVars>>

InitSeq == RouterOff /\ SqlInit /\ ChartOff /\ ConcOff
NextSeq ==
    SqlStart \/ seq_node_agent \/ node_agent_raises \/ node_parse_and_visualize
    \/ invoke_again
SpecSeq == InitSeq /\ [][NextSeq]_vars

---------------------------------------------------------------------------
(* Two runs of the agent-backed pipeline side by side, each in a process  *)
(* of its own, against the same OUT_DIR (SpecConc).  A run is cut into    *)
(* steps where it touches a file: open(path, "w") leaves the file empty,  *)
(* and the buffered text reaches it at offset 0 when the file is closed;  *)
(* savefig opens chart.png the same way and then writes the image.        *)

Runs == {1, 2}

\* chart.png with no bytes in it.
EmptyPng == [kind |-> "empty"]

\* An open that keeps what the file holds, as mode "r+" does.
OpenKeeping(old, empty) == IF IsSome(old) THEN old ELSE Some(empty)

\* open(path, "w"), and the open inside savefig: the file exists and is
\* empty, whatever it held.
OpenTruncate(old, empty) == Some(empty)

\* What stays of the text `held` behind n characters written at offset 0.
Behind(held, n) == IF Len(held) > n THEN SubSeq(held, n + 1, Len(held)) ELSE <<>>

\* The close of save_table's file: the text lands at offset 0 of what
\* the file holds by now.
WriteAtStart(old, new) == Some(new \o Behind(old.val, Len(new)))

\* The write of savefig: the image lands at offset 0 of what the file
\* holds by now.  The byte length of an image is not modelled: longer
\* says whether the file holds more bytes than the image has.
WriteFigAtStart(old, fig, longer) ==
    IF old.val = EmptyPng \/ old.val = fig \/ ~longer
    THEN Some(fig)
    ELSE Some([kind |-> "torn", head |-> fig, rest |-> old.val])

\* graph.invoke(AgentState(question=q)) in a process of its own.
NewRun(q) ==
    [state |-> NewAgentState(q), pc |-> "START", parsed |-> None,
     chart |-> None]

ConcInit ==
    /\ procs \in [Runs -> { NewRun(q) : q \in SqlQuestions }]
    /\ overlap = [csv |-> FALSE, png |-> FALSE]

\* Another run than r is between the open and the write at position at.
OtherAt(r, at) == \E o \in Runs \ {r} : procs[o].pc = at

\* g.add_edge(START, "agent")
run_start(r) ==
    /\ procs[r].pc = "START"
    /\ procs' = [procs EXCEPT ![r].pc = "agent"]
    /\ UNCHANGED <<overlap, files, wrote>>
    /\ UNCHANGED <<routerVars, chartVars, oneRunVars>>

\* node_agent, then g.add_edge("agent", "parse_visualize")
run_node_agent(r) ==
    /\ procs[r].pc = "agent"
    /\ \E out \in SeqOutputs :
          procs' = [procs EXCEPT ![r].state.raw_output = out,
                                 ![r].pc = "parse_visualize"]
    /\ UNCHANGED <<overlap, files, wrote>>
    /\ UNCHANGED <<routerVars, chartVars, oneRunVars>>

\* node_agent when sql_agent.invoke raises.
run_node_agent_raises(r) ==
    /\ procs[r].pc = "agent"
    /\ procs' = [procs EXCEPT ![r].pc = "RAISED"]
    /\ UNCHANGED <<overlap, files, wrote>>
    /\ UNCHANGED <<routerVars, chartVars, oneRunVars>>

\* Lines 108-112 of run r, with p the value parse_csv_from_text returned.
RunParsed(r, s, p) ==
    IF IsNone(p)
    THEN [procs EXCEPT ![r].state = ReturnText(s), ![r].pc = "END"]
    ELSE [procs EXCEPT ![r].parsed = p, ![r].pc = "save_table_open"]

\* Lines 105-112 of run r on its state s.
RunParse(r, s) ==
    IF NoRawOutput(s)
    THEN [procs EXCEPT ![r].state = ReturnNoOutput(s), ![r].pc = "END"]
    ELSE RunParsed(r, s, parse_csv_from_text(s.raw_output.val))

\* node_parse_and_visualize up to the call of save_table.
run_parse(r) ==
    /\ procs[r].pc = "parse_visualize"
    /\ procs' = RunParse(r, procs[r].state)
    /\ UNCHANGED <<overlap, files, wrote>>
    /\ UNCHANGED <<routerVars, chartVars, oneRunVars>>

\* save_table: open(path, "w", ...)
run_save_table_open(r) ==
    /\ procs[r].pc = "save_table_open"
    /\ files' = [files EXCEPT !.csv = OpenTruncate(@, <<>>)]
    /\ overlap' = [overlap EXCEPT !.csv = @ \/ OtherAt(r, "save_table_write")]
    /\ procs' = [procs EXCEPT ![r].pc = "save_table_write"]
    /\ UNCHANGED wrote
    /\ UNCHANGED <<routerVars, chartVars, oneRunVars>>

\* save_table: the rows are written and the file is closed.
run_save_table_write(r) ==
    /\ procs[r].pc = "save_table_write"
    /\ files' = [files EXCEPT !.csv =
                    WriteAtStart(@, save_table(procs[r].parsed.val.header,
                                               procs[r].parsed.val.rows))]
    /\ wrote' = [wrote EXCEPT !.csv = r]
    /\ procs' = [procs EXCEPT ![r].pc = "maybe_chart"]
    /\ UNCHANGED overlap
    /\ UNCHANGED <<routerVars, chartVars, oneRunVars>>

\* Run r after lines 75-93 of maybe_chart gave c: without a figure
\* maybe_chart returns None and the node returns.
RunCharted(r, s, c) ==
    IF IsNone(c.fig)
    THEN [procs EXCEPT ![r].state = ReturnSaved(s, c.ret), ![r].pc = "END"]
    ELSE [procs EXCEPT ![r].chart = Some(c), ![r].pc = "savefig_open"]

\* maybe_chart up to savefig.
run_maybe_chart(r) ==
    /\ procs[r].pc = "maybe_chart"
    /\ procs' = RunCharted(r, procs[r].state,
                           maybe_chart(procs[r].parsed.val.header,
                                       procs[r].parsed.val.rows,
                                       procs[r].state.question))
    /\ UNCHANGED <<overlap, files, wrote>>
    /\ UNCHANGED <<routerVars, chartVars, oneRunVars>>

\* plt.savefig(out_png): chart.png is opened for writing.
run_savefig_open(r) ==
    /\ procs[r].pc = "savefig_open"
    /\ files' = [files EXCEPT !.png = OpenTruncate(@, EmptyPng)]
    /\ overlap' = [overlap EXCEPT !.png = @ \/ OtherAt(r, "savefig_write")]
    /\ procs' = [procs EXCEPT ![r].pc = "savefig_write"]
    /\ UNCHANGED wrote
    /\ UNCHANGED <<routerVars, chartVars, oneRunVars>>

\* plt.savefig(out_png): the image is written; maybe_chart returns
\* out_png and the node returns.
run_savefig_write(r) ==
    /\ procs[r].pc = "savefig_write"
    /\ \E longer \in BOOLEAN :
          files' = [files EXCEPT !.png =
                       WriteFigAtStart(@, procs[r].chart.val.fig.val, longer)]
    /\ wrote' = [wrote EXCEPT !.png = r]
    /\ procs' = [procs EXCEPT
                    ![r].state = ReturnSaved(@, procs[r].chart.val.ret),
                    ![r].pc = "END"]
    /\ UNCHANGED overlap
    /\ UNCHANGED <<routerVars, chartVars, oneRunVars>>

RunStep(r) ==
    \/ run_start(r) \/ run_node_agent(r) \/ run_node_agent_raises(r)
    \/ run_parse(r)
    \/ run_save_table_open(r) \/ run_save_table_write(r)
    \/ run_maybe_chart(r)
    \/ run_savefig_open(r) \/ run_savefig_write(r)

InitConc ==
    /\ RouterOff /\ ChartOff /\ ConcInit
    /\ state = NewAgentState(<<>>) /\ pc = "off" /\ parsed = None /\ run = 0
    /\ files = [csv |-> None, png |-> None]
    /\ wrote = [csv |-> 0, png |-> 0]
NextConc == \E r \in Runs : RunStep(r)
SpecConc == InitConc /\ [][NextConc]_vars

---------------------------------------------------------------------------
(* Properties of the simple router *)

Intents == {"kpi", "sentiment", "fallback"}

HasKpiKeyword(question) == AnyIn(KpiKeywords, Lower(question))
HasSentimentKeyword(question) == AnyIn(SentimentKeywords, Lower(question))

\* node_plan has run on the state.
Planned == rpc \in Intents \cup {"END"}

\* C1: once node_plan has run, the intent is one of kpi, sentiment and
\* fallback, decided by the keywords in the lowercased question: kpi for a
\* KPI keyword and no sentiment keyword, sentiment for a KPI keyword
\* together with a sentiment keyword, fallback for no keyword at all.
C1_IntentByLastMatch ==
    Planned =>
        /\ IsSome(rstate.intent)
        /\ rstate.intent.val \in Intents
        /\ (HasKpiKeyword(rstate.question) /\ ~HasSentimentKeyword(rstate.question))
              => rstate.intent.val = "kpi"
        /\ (HasKpiKeyword(rstate.question) /\ HasSentimentKeyword(rstate.question))
              => rstate.intent.val = "sentiment"
        /\ (~HasKpiKeyword(rstate.question) /\ ~HasSentimentKeyword(rstate.question))
              => rstate.intent.val = "fallback"

\* A question with a KPI keyword and a sentiment keyword, both spelt with
\* capitals, has been planned as sentiment.
C1_Witness ==
    /\ Planned
    /\ rstate.question =
         <<"R","e","v","e","n","u","e"," ","R","E","V","I","E","W">>
    /\ rstate.intent = Some("sentiment")

CannedAnswer(intent) ==
    IF intent = "kpi" THEN KpiAnswer
    ELSE IF intent = "sentiment" THEN SentimentAnswer
    ELSE FallbackAnswer

\* C2: a run of the simple router from a state holding only a question
\* executes plan, then the one handler named by the intent, then stands at
\* END with that handler's canned answer; until END a next node is always
\* ready to run, and no run executes more than these two nodes.
C2_PlanThenOneHandler ==
    rpc # "off" =>
        /\ rpc \in {"START", "plan", "END"} \cup Intents
        /\ rpc \in {"START", "plan"} =>
              /\ rtrace = <<>>
              /\ IsNone(rstate.intent) /\ IsNone(rstate.answer)
        /\ rpc \in Intents =>
              /\ rtrace = <<"plan">>
              /\ rstate.intent = Some(rpc)
              /\ IsNone(rstate.answer)
        /\ rpc = "END" =>
              /\ IsSome(rstate.intent) /\ rstate.intent.val \in Intents
              /\ rtrace = <<"plan", rstate.intent.val>>
              /\ rstate.answer = Some(CannedAnswer(rstate.intent.val))
        /\ rpc # "END" => ENABLED RouterNext
        /\ rpc = "END" => ~ENABLED RouterNext

\* A question without any keyword has reached END through plan and
\* fallback, with the canned guidance as its answer.
C2_Witness ==
    /\ rpc = "END"
    /\ rstate.question = <<"r","a","n","d","o","m">>
    /\ rtrace = <<"plan", "fallback">>
    /\ rstate.answer = Some(FallbackAnswer)

---------------------------------------------------------------------------
(* Properties of the agent-backed pipeline *)

\* C3: at END the user-facing message is a string: message in the
\* agent-backed pipeline, whatever the agent returned, and answer in the
\* simple router.
C3_MessageAtEnd ==
    /\ pc = "END" => IsSome(state.message)
    /\ rpc = "END" => IsSome(rstate.answer)

\* The agent returned nothing and the run has ended with a message.
C3_Witness ==
    /\ pc = "END"
    /\ IsNone(state.raw_output)
    /\ IsSome(state.message)

\* C4 as claimed: when no table was extracted, be it that the parse gave
\* none or that there was no output to parse, the final message is
\* raw_output itself and both artifact paths stay absent.
C4_NoTableMessageIsRawOutput ==
    (pc = "END" /\ IsNone(parsed)) =>
        /\ state.message = state.raw_output
        /\ IsNone(state.result_csv_path)
        /\ IsNone(state.chart_png_path)

\* C4: when no table was extracted both artifact paths stay absent and no
\* file is written; the final message is raw_output itself when the agent
\* returned a non-empty text, and the fixed text "No output from agent."
\* when it returned nothing or the empty text.
C4_NoTableMessage ==
    (pc = "END" /\ IsNone(parsed)) =>
        /\ IsNone(state.result_csv_path)
        /\ IsNone(state.chart_png_path)
        /\ files = [csv |-> None, png |-> None]
        /\ ~NoRawOutput(state) => state.message = state.raw_output
        /\ NoRawOutput(state) => state.message = Some(NoOutputMessage)

\* A text that starts with a line break and holds no table has come back
\* as the message, line break included.
C4_Witness ==
    /\ pc = "END"
    /\ IsNone(parsed)
    /\ state.raw_output = Some(<<"\n", "7">>)
    /\ state.message = Some(<<"\n", "7">>)

\* What csv.reader yields for the text the agent returned.
RecordsRead(s) == CsvReader(RemoveFences(Strip(s.raw_output.val))).rows

\* Some data record has another number of fields than the first record.
Ragged(records) == \E k \in 2..Len(records) : Len(records[k]) # Len(records[1])

\* C5: parse_csv_from_text accepts no table in part: when a data row has
\* another number of fields than the header the result is absent (and
\* nothing is saved), so every row of a table it returns has as many
\* fields as the header.
C5_NoPartialTable ==
    (pc = "END" /\ ~NoRawOutput(state)) =>
        /\ IsSome(parsed) =>
              \A i \in 1..Len(parsed.val.rows) :
                  Len(parsed.val.rows[i]) = Len(parsed.val.header)
        /\ Ragged(RecordsRead(state)) =>
              /\ IsNone(parsed)
              /\ IsNone(state.result_csv_path)
              /\ IsNone(files.csv)

\* A header of two fields, a row of two fields and a row of one field
\* have been parsed to nothing.
C5_Witness ==
    /\ pc = "END"
    /\ state.raw_output =
         Some(Join(<<LabelCell \o <<",">> \o WordCell,
                     LabelCell \o <<",">> \o NumberCell, <<"7">> >>, <<"\n">>))
    /\ Len(RecordsRead(state)) = 3
    /\ IsNone(parsed)

\* A text without a fence that parses to a table of a header and at least
\* one row.
WellFormedCsv(text) ==
    /\ \A i \in 1..Len(text) : text[i] # BQ
    /\ IsSome(parse_csv_from_text(text))
    /\ parse_csv_from_text(text).val.rows # <<>>

\* C6 as claimed: for a well-formed comma-separated text the agent
\* returned, parse_csv_from_text gives the same header and rows for the
\* text wrapped in a fenced block (fence line, tagged csv or not, the text,
\* fence line) as for the text itself.
C6_FenceWrapperIsTransparent ==
    (pc \in {"parse_visualize", "END"} /\ IsSome(state.raw_output)
       /\ WellFormedCsv(state.raw_output.val)) =>
        \A tag \in {<<>>, TagLower} :
            parse_csv_from_text(FenceBlock(tag, state.raw_output.val))
              = parse_csv_from_text(state.raw_output.val)

\* The table has two columns or more and a second-column value that
\* float() rejects.
SecondColumnNotNumeric(t) ==
    /\ Len(t.header) >= 2
    /\ \E i \in 1..Len(t.rows) : ~FloatParses(t.rows[i][2])

\* C7: for a parsed table with a second-column value that is no float, no
\* chart is made whatever the first column holds: chart.png is not
\* written, chart_png_path stays absent, and the message names result.csv
\* alone.
C7_NonNumericNoChart ==
    (pc = "END" /\ IsSome(parsed) /\ SecondColumnNotNumeric(parsed.val)) =>
        /\ IsNone(maybe_chart(parsed.val.header, parsed.val.rows, state.question).ret)
        /\ IsNone(files.png) /\ wrote.png = 0
        /\ IsNone(state.chart_png_path)
        /\ state.result_csv_path = Some(out_csv)
        /\ state.message = Some(SavedPrefix \o out_csv)
        /\ ~Contains(out_png, state.message.val)

\* A table of dates whose second column holds a number in one row and a
\* word in the other has been saved without a chart.
C7_Witness ==
    /\ pc = "END"
    /\ IsSome(parsed)
    /\ parsed.val.rows = << <<DateCell, NumberCell>>, <<DateCell, WordCell>> >>
    /\ IsNone(state.chart_png_path)
    /\ IsSome(files.csv)

---------------------------------------------------------------------------
(* Properties of maybe_chart (SpecChart) *)

\* maybe_chart has returned for the table.
ChartMade == IsSome(table) /\ IsSome(chart)

\* A table of two columns or more with a row or more whose first column
\* parses as dates throughout.
DatedTable(t) ==
    /\ Len(t.header) >= 2
    /\ t.rows # <<>>
    /\ FirstColumnDates(FirstColumn(t.rows))

\* The figure is the time series of all the rows of t, in their order.
IsTimeSeriesOf(fig, t) ==
    /\ fig.kind = "plot"
    /\ Len(fig.xdt) = Len(t.rows)
    /\ Len(fig.y) = Len(t.rows)
    /\ \A i \in 1..Len(t.rows) :
          /\ Some(fig.xdt[i]) = FromIsoFormat(t.rows[i][1])
          /\ fig.y[i] = FloatValue(t.rows[i][2])

\* C8 as claimed (for tables of two columns and a row at least): a table
\* whose first column parses fully as dates gives a time series with one
\* point per row.
C8_DatesGiveTimeSeries ==
    (ChartMade /\ DatedTable(table.val)) =>
        /\ IsSome(chart.val.fig)
        /\ chart.val.fig.val.kind = "plot"
        /\ Len(chart.val.fig.val.xdt) = Len(table.val.rows)

\* C8: a table of two columns or more and one row or more whose first
\* column parses fully as dates and whose second column parses fully as
\* floats gives a time series with one point per row, in the row order of
\* the table and under no row cap, written to chart.png.
C8_NumericDatesGiveTimeSeries ==
    (ChartMade /\ DatedTable(table.val) /\ SecondColumnNumeric(table.val.rows)) =>
        /\ chart.val.ret = Some(out_png)
        /\ IsSome(chart.val.fig)
        /\ IsTimeSeriesOf(chart.val.fig.val, table.val)
        /\ files.png = chart.val.fig

\* More rows than the cap of the bars, dated in descending order, have
\* all been plotted.
C8_Witness ==
    /\ ChartMade
    /\ Len(table.val.rows) > BarRowCap
    /\ table.val.rows[1][1] = DateAt(Len(table.val.rows))
    /\ IsSome(chart.val.fig)
    /\ chart.val.fig.val.kind = "plot"
    /\ Len(chart.val.fig.val.xdt) = Len(table.val.rows)

\* A table of two columns or more with a row or more, a second column of
\* floats and a first-column value that is no date.
CategoricalTable(t) ==
    /\ Len(t.header) >= 2
    /\ t.rows # <<>>
    /\ SecondColumnNumeric(t.rows)
    /\ ~FirstColumnDates(FirstColumn(t.rows))

Min(a, b) == IF a < b THEN a ELSE b

\* C9: a table of two columns or more with a row or more, a second column
\* of floats and a first-column value that is no date gives bars (not
\* nothing) for its first min(30, row count) rows in table order, the
\* labels being the first-column texts and the values the second-column
\* floats of those rows.
C9_CategoricalFirstThirty ==
    (ChartMade /\ CategoricalTable(table.val)) =>
        /\ chart.val.ret = Some(out_png)
        /\ IsSome(chart.val.fig)
        /\ chart.val.fig.val.kind = "bar"
        /\ Len(chart.val.fig.val.labels) = Min(30, Len(table.val.rows))
        /\ Len(chart.val.fig.val.y) = Min(30, Len(table.val.rows))
        /\ \A i \in 1..Min(30, Len(table.val.rows)) :
              /\ chart.val.fig.val.labels[i] = table.val.rows[i][1]
              /\ chart.val.fig.val.y[i] = FloatValue(table.val.rows[i][2])
        /\ files.png = chart.val.fig

\* More than 30 rows of labels and numbers have given 30 bars.
C9_Witness ==
    /\ ChartMade
    /\ Len(table.val.rows) > 30
    /\ CategoricalTable(table.val)
    /\ IsSome(chart.val.fig)
    /\ chart.val.fig.val.kind = "bar"
    /\ Len(chart.val.fig.val.labels) = 30

---------------------------------------------------------------------------
(* Properties of runs one after the other (SpecSeq) *)

\* C10 as claimed: after any number of runs against the same OUT_DIR,
\* what stands at result.csv and at chart.png was written by the most
\* recent run; no artifact of an earlier run is left at either place.
C10_OnlyLatestArtifacts ==
    pc = "END" =>
        /\ IsSome(files.csv) => wrote.csv = run
        /\ IsSome(files.png) => wrote.png = run

\* C10: a run overwrites the artifacts it produces and only those.  After
\* a run that extracted a table result.csv holds that table and nothing
\* of an earlier run; after a run that made a chart chart.png holds that
\* chart; a run that extracted no table has written neither file, and a
\* run that made no chart has not written chart.png, so that an artifact
\* of an earlier run can still stand there.
C10_RunOverwritesWhatItWrites ==
    pc = "END" =>
        /\ IsSome(state.result_csv_path) =>
              /\ IsSome(parsed)
              /\ wrote.csv = run
              /\ files.csv = Some(save_table(parsed.val.header, parsed.val.rows))
        /\ IsSome(state.chart_png_path) =>
              /\ IsSome(state.result_csv_path)
              /\ wrote.png = run
              /\ files.png =
                   maybe_chart(parsed.val.header, parsed.val.rows, state.question).fig
        /\ IsNone(state.result_csv_path) => wrote.csv < run
        /\ IsNone(state.chart_png_path) => wrote.png < run

\* The second run has saved its table over the first run's; the chart of
\* the first run still stands beside it.
C10_Witness ==
    /\ pc = "END"
    /\ run = 2
    /\ IsSome(state.result_csv_path) /\ IsNone(state.chart_png_path)
    /\ wrote = [csv |-> 2, png |-> 1]
    /\ IsSome(files.png)

---------------------------------------------------------------------------
(* Properties of runs side by side (SpecConc) *)

\* Every run has returned or raised.
AllDone == \A r \in Runs : procs[r].pc \in {"END", "RAISED"}

\* What run r gave save_table to write, and what it gave savefig.
TableText(r) ==
    save_table(procs[r].parsed.val.header, procs[r].parsed.val.rows)
ChartImage(r) == procs[r].chart.val.fig.val

\* The run that wrote file f last, if any, wrote it whole: the file
\* holds what that run wrote and nothing else.
LastWriterWins(f, held, textOf(_)) ==
    /\ wrote[f] = 0 => held = None
    /\ wrote[f] # 0 => held = Some(textOf(wrote[f]))

=============================================================================
